---- MODULE Spec2Model ----
(***************************************************************************)
(* Variational residual kernels (fastvpinns/physics) and the coupled       *)
(* training step of DenseModel (pinns/model/model_vector_transient.py).    *)
(*                                                                         *)
(* Tensors are sequences: a rank-3 tensor of shape (E,T,Q) is a sequence   *)
(* of E sequences of T sequences of Q integers, a rank-2 tensor of shape   *)
(* (R,C) a sequence of R sequences of C integers.  Tensor entries are     *)
(* integers; a mean is an exact rational <<numerator, denominator>> in     *)
(* lowest terms, so that nothing is lost to rounding.                      *)
(***************************************************************************)
EXTENDS Integers, Sequences, FiniteSets, TLC

VARIABLES
    kin,        \* the arguments of the residual kernel invocation
    kname,      \* the kernel invoked last ("none" before the first call)
    kout,       \* what that invocation returned or raised
    klog,       \* the invocations of a session, in order, with their results
    mstate,     \* DenseModel: "new", "built" or "ctor_failed"
    cfg,        \* DenseModel: constructor arguments kept on the object
    data,       \* DenseModel: the nine input tensors copied by __init__
    params,     \* DenseModel.trainable_variables (kernel 3x3, then bias 3)
    optimizer,  \* Adam state: iterations and moment accumulators
    gradients,  \* DenseModel.gradients, kept on the object between steps
    epoch,      \* DenseModel.epoch
    pc,         \* position inside train_step ("idle" between steps)
    loc,        \* the locals of the running train_step
    ret,        \* what the last train_step returned or raised
    hist        \* bookkeeping: state at step entry, what the step did so far

vars == <<kin, kname, kout, klog, mstate, cfg, data, params, optimizer, gradients,
          epoch, pc, loc, ret, hist>>

kvars == <<kin, kname, kout, klog>>
tvars == <<mstate, cfg, data, params, optimizer, gradients, epoch, pc, loc,
           ret, hist>>

----------------------------------------------------------------------------
(* Bounds of the model *)

MaxDim == 2        \* E, T and Q range over 1..MaxDim
MaxBatch == 3      \* batch sizes of the training point sets
MaxSteps == 2      \* train_step invocations per run
MaxCalls == 2      \* kernel invocations per session
MaxScale == 3      \* factors by which a session rescales eps

----------------------------------------------------------------------------
(* Exact arithmetic *)

Abs(x) == IF x < 0 THEN -x ELSE x

Max(a, b) == IF a >= b THEN a ELSE b

RECURSIVE GCD(_, _)
GCD(a, b) == IF b = 0 THEN a ELSE GCD(b, a % b)

\* the rational n/d (d # 0) in lowest terms with a positive denominator
Rat(n, d) ==
    LET s == IF d < 0 THEN -1 ELSE 1
        g == GCD(Abs(n), Abs(d))
    IN  <<(s * n) \div g, (s * d) \div g>>

RInt(n) == <<n, 1>>
RAdd(a, b) == Rat(a[1] * b[2] + b[1] * a[2], a[2] * b[2])
RMul(a, b) == Rat(a[1] * b[1], a[2] * b[2])

RECURSIVE SumSeq(_)
SumSeq(s) == IF s = <<>> THEN 0 ELSE Head(s) + SumSeq(Tail(s))

RECURSIVE RSumSeq(_)
RSumSeq(s) == IF s = <<>> THEN RInt(0) ELSE RAdd(Head(s), RSumSeq(Tail(s)))

----------------------------------------------------------------------------
(* Tensor primitives used by the kernels *)

Rows(A) == Len(A)
Cols(A) == Len(A[1])

\* two dimensions broadcast when they are equal or one of them is 1
DimOk(a, b) == a = b \/ a = 1 \/ b = 1

BroadcastOk(A, B) == DimOk(Rows(A), Rows(B)) /\ DimOk(Cols(A), Cols(B))

Pick(n, i) == IF n = 1 THEN 1 ELSE i

\* elementwise A + B, A - B, A * B of rank-2 tensors, with broadcasting
BAdd(A, B) ==
    [i \in 1..Max(Rows(A), Rows(B)) |->
        [j \in 1..Max(Cols(A), Cols(B)) |->
            A[Pick(Rows(A), i)][Pick(Cols(A), j)]
              + B[Pick(Rows(B), i)][Pick(Cols(B), j)]]]

BSub(A, B) ==
    [i \in 1..Max(Rows(A), Rows(B)) |->
        [j \in 1..Max(Cols(A), Cols(B)) |->
            A[Pick(Rows(A), i)][Pick(Cols(A), j)]
              - B[Pick(Rows(B), i)][Pick(Cols(B), j)]]]

\* a product that takes B at the first column of each row only
BMulRowConstant(A, B) ==
    [i \in 1..Max(Rows(A), Rows(B)) |->
        [j \in 1..Max(Cols(A), Cols(B)) |->
            A[Pick(Rows(A), i)][Pick(Cols(A), j)] * B[Pick(Rows(B), i)][1]]]

BMul(A, B) ==
    [i \in 1..Max(Rows(A), Rows(B)) |->
        [j \in 1..Max(Cols(A), Cols(B)) |->
            A[Pick(Rows(A), i)][Pick(Cols(A), j)]
              * B[Pick(Rows(B), i)][Pick(Cols(B), j)]]]

\* scalar * tensor
SMul(s, A) == [i \in 1..Rows(A) |-> [j \in 1..Cols(A) |-> s * A[i][j]]]

\* tf.transpose of a rank-2 tensor
Transpose(A) == [j \in 1..Cols(A) |-> [i \in 1..Rows(A) |-> A[i][j]]]

\* tf.linalg.matvec(M, d): M of shape (E,T,Q), d of shape (E',Q'); the
\* contraction needs Q = Q' and batch dimensions that broadcast
MatVecOk(M, d) == Len(M[1][1]) = Cols(d) /\ DimOk(Len(M), Rows(d))

\* a contraction that stops at the first quadrature point
MatVecFirstPoint(M, d) ==
    [e \in 1..Max(Len(M), Rows(d)) |->
        [t \in 1..Len(M[1]) |->
            M[Pick(Len(M), e)][t][1] * d[Pick(Rows(d), e)][1]]]

MatVec(M, d) ==
    [e \in 1..Max(Len(M), Rows(d)) |->
        [t \in 1..Len(M[1]) |->
            SumSeq([q \in 1..Cols(d) |->
                M[Pick(Len(M), e)][t][q] * d[Pick(Rows(d), e)][q]])]]

\* tf.square
Square(A) == [i \in 1..Rows(A) |-> [j \in 1..Cols(A) |-> A[i][j] * A[i][j]]]

\* tf.reduce_mean(A, axis=1), the reduction a wrong axis would perform
ReduceMeanAxis1(A) ==
    [i \in 1..Rows(A) |-> Rat(SumSeq(A[i]), Cols(A))]

\* tf.reduce_mean(A, axis=0): one mean per column
ReduceMeanAxis0(A) ==
    [j \in 1..Cols(A) |-> Rat(SumSeq([i \in 1..Rows(A) |-> A[i][j]]), Rows(A))]

\* a kernel that swallows the exception and returns an empty residual
RaiseSwallowed(e) == [ok |-> TRUE, err |-> "none", residual_matrix |-> <<>>,
                      residual_cells |-> <<>>]

\* outcomes of a call
Raise(e) == [ok |-> FALSE, err |-> e, residual_matrix |-> <<>>,
             residual_cells |-> <<>>]

Return(rm, rc) == [ok |-> TRUE, err |-> "none", residual_matrix |-> rm,
                   residual_cells |-> rc]

NoCall == [ok |-> FALSE, err |-> "nocall", residual_matrix |-> <<>>,
           residual_cells |-> <<>>]

----------------------------------------------------------------------------
(* poisson2d_inverse.py *)

\* a kernel that adds the coefficient where it should scale by it
PoissonDiffusionAdditive(ip, dx, dy) ==
    [i \in 1..Rows(BAdd(dx, dy)) |->
        [j \in 1..Cols(BAdd(dx, dy)) |-> BAdd(dx, dy)[i][j] + ip["eps"]]]

\* a kernel that forgets the coefficient
PoissonDiffusionNoEps(ip, dx, dy) == BAdd(dx, dy)

\* eps * (pde_diffusion_x + pde_diffusion_y)
PoissonDiffusion(ip, dx, dy) == SMul(ip["eps"], BAdd(dx, dy))

pde_loss_poisson_inverse(a) ==
    IF ~MatVecOk(a.test_grad_x_mat, a.pred_grad_x_nn)
    THEN Raise("InvalidArgumentError")
    ELSE IF ~MatVecOk(a.test_grad_y_mat, a.pred_grad_y_nn)
    THEN Raise("InvalidArgumentError")
    ELSE
      LET pde_diffusion_x ==
              Transpose(MatVec(a.test_grad_x_mat, a.pred_grad_x_nn))
          pde_diffusion_y ==
              Transpose(MatVec(a.test_grad_y_mat, a.pred_grad_y_nn))
      IN
      IF "eps" \notin DOMAIN a.inverse_params_dict
      THEN Raise("KeyError")
      ELSE IF ~BroadcastOk(pde_diffusion_x, pde_diffusion_y)
      THEN Raise("InvalidArgumentError")
      ELSE
        LET pde_diffusion ==
                PoissonDiffusion(a.inverse_params_dict, pde_diffusion_x,
                                 pde_diffusion_y)
        IN
        IF ~BroadcastOk(pde_diffusion, a.forcing_function)
        THEN Raise("InvalidArgumentError")
        ELSE
          LET residual_matrix == BSub(pde_diffusion, a.forcing_function)
          IN  Return(residual_matrix,
                     ReduceMeanAxis0(Square(residual_matrix)))

----------------------------------------------------------------------------
(* helmholtz2d.py *)

\* a kernel that uses k where k ** 2 is meant
HelmholtzAdditionalLinear(bp, vu) == SMul(bp["k"], vu)

\* (bilinear_params["k"] ** 2) * transpose(matvec(test_shape_val_mat, pred_nn))
HelmholtzAdditional(bp, vu) == SMul(bp["k"] * bp["k"], vu)

\* a kernel that adds the diffusion term instead of subtracting it
HelmholtzResidualPlus(pde_diffusion, helmholtz_additional, forcing_function) ==
    BSub(BAdd(pde_diffusion, helmholtz_additional), forcing_function)

\* -1.0 * pde_diffusion + helmholtz_additional - forcing_function
HelmholtzResidual(pde_diffusion, helmholtz_additional, forcing_function) ==
    BSub(BAdd(SMul(-1, pde_diffusion), helmholtz_additional),
         forcing_function)

pde_loss_helmholtz(a) ==
    IF ~MatVecOk(a.test_grad_x_mat, a.pred_grad_x_nn)
    THEN Raise("InvalidArgumentError")
    ELSE IF ~MatVecOk(a.test_grad_y_mat, a.pred_grad_y_nn)
    THEN Raise("InvalidArgumentError")
    ELSE
      LET pde_diffusion_x ==
              Transpose(MatVec(a.test_grad_x_mat, a.pred_grad_x_nn))
          pde_diffusion_y ==
              Transpose(MatVec(a.test_grad_y_mat, a.pred_grad_y_nn))
      IN
      IF "eps" \notin DOMAIN a.bilinear_params
      THEN Raise("KeyError")
      ELSE IF ~BroadcastOk(pde_diffusion_x, pde_diffusion_y)
      THEN Raise("InvalidArgumentError")
      ELSE IF "k" \notin DOMAIN a.bilinear_params
      THEN Raise("KeyError")
      ELSE IF ~MatVecOk(a.test_shape_val_mat, a.pred_nn)
      THEN Raise("InvalidArgumentError")
      ELSE
        LET pde_diffusion ==
                SMul(a.bilinear_params["eps"],
                     BAdd(pde_diffusion_x, pde_diffusion_y))
            helmholtz_additional ==
                HelmholtzAdditional(a.bilinear_params,
                    Transpose(MatVec(a.test_shape_val_mat, a.pred_nn)))
        IN
        IF ~BroadcastOk(pde_diffusion, helmholtz_additional)
        THEN Raise("InvalidArgumentError")
        ELSE IF ~BroadcastOk(BAdd(pde_diffusion, helmholtz_additional),
                             a.forcing_function)
        THEN Raise("InvalidArgumentError")
        ELSE
          LET residual_matrix ==
                  HelmholtzResidual(pde_diffusion, helmholtz_additional,
                                    a.forcing_function)
          IN  Return(residual_matrix,
                     ReduceMeanAxis0(Square(residual_matrix)))

----------------------------------------------------------------------------
(* cd2d_inverse_domain.py *)

\* b_x * conv_x + b_y * conv_y
Cd2dConvection(bp, conv_x, conv_y) ==
    BAdd(SMul(bp["b_x"], conv_x), SMul(bp["b_y"], conv_y))

pde_loss_cd2d_inverse_domain(a) ==
    IF Len(a.inverse_params_list) = 0
    THEN Raise("IndexError")
    ELSE
      LET diffusion_coeff_NN == a.inverse_params_list[1]
      IN
      IF ~BroadcastOk(a.pred_grad_x_nn, diffusion_coeff_NN)
      THEN Raise("InvalidArgumentError")
      ELSE IF ~MatVecOk(a.test_grad_x_mat,
                        BMul(a.pred_grad_x_nn, diffusion_coeff_NN))
      THEN Raise("InvalidArgumentError")
      ELSE IF ~BroadcastOk(a.pred_grad_y_nn, diffusion_coeff_NN)
      THEN Raise("InvalidArgumentError")
      ELSE IF ~MatVecOk(a.test_grad_y_mat,
                        BMul(a.pred_grad_y_nn, diffusion_coeff_NN))
      THEN Raise("InvalidArgumentError")
      ELSE
        LET pde_diffusion_x ==
                Transpose(MatVec(a.test_grad_x_mat,
                                 BMul(a.pred_grad_x_nn, diffusion_coeff_NN)))
            pde_diffusion_y ==
                Transpose(MatVec(a.test_grad_y_mat,
                                 BMul(a.pred_grad_y_nn, diffusion_coeff_NN)))
        IN
        IF ~BroadcastOk(pde_diffusion_x, pde_diffusion_y)
        THEN Raise("InvalidArgumentError")
        ELSE IF ~MatVecOk(a.test_shape_val_mat, a.pred_grad_x_nn)
        THEN Raise("InvalidArgumentError")
        ELSE IF ~MatVecOk(a.test_shape_val_mat, a.pred_grad_y_nn)
        THEN Raise("InvalidArgumentError")
        ELSE IF "b_x" \notin DOMAIN a.bilinear_params
        THEN Raise("KeyError")
        ELSE IF "b_y" \notin DOMAIN a.bilinear_params
        THEN Raise("KeyError")
        ELSE IF "c" \notin DOMAIN a.bilinear_params
        THEN Raise("KeyError")
        ELSE IF ~MatVecOk(a.test_shape_val_mat, a.pred_nn)
        THEN Raise("InvalidArgumentError")
        ELSE
          LET pde_diffusion == BAdd(pde_diffusion_x, pde_diffusion_y)
              conv_x ==
                  Transpose(MatVec(a.test_shape_val_mat, a.pred_grad_x_nn))
              conv_y ==
                  Transpose(MatVec(a.test_shape_val_mat, a.pred_grad_y_nn))
              conv == Cd2dConvection(a.bilinear_params, conv_x, conv_y)
              reaction ==
                  SMul(a.bilinear_params["c"],
                       Transpose(MatVec(a.test_shape_val_mat, a.pred_nn)))
              lhs == BAdd(BAdd(pde_diffusion, conv), reaction)
          IN
          IF ~BroadcastOk(lhs, a.forcing_function)
          THEN Raise("InvalidArgumentError")
          ELSE
            LET residual_matrix == BSub(lhs, a.forcing_function)
            IN  Return(residual_matrix,
                       ReduceMeanAxis0(Square(residual_matrix)))

----------------------------------------------------------------------------
(* Kernel arguments: tensors filled by a pattern, coefficient mappings *)

Patterns == {"zero", "one", "two", "ramp", "alt"}

\* entry (i,j,k) of the tensor filled by pattern p (k = 1 for rank 2)
Val(p, i, j, k) ==
    CASE p = "zero" -> 0
      [] p = "one"  -> 1
      [] p = "two"  -> 2
      [] p = "ramp" -> i + j + k - 2
      [] p = "alt"  -> (IF (i + j + k) % 2 = 0 THEN 1 ELSE -1) * k

Fill3(p, E, T, Q) ==
    [e \in 1..E |-> [t \in 1..T |-> [q \in 1..Q |-> Val(p, e, t, q)]]]

Fill2(p, R, C) == [i \in 1..R |-> [j \in 1..C |-> Val(p, i, j, 1)]]

\* (test_shape_val_mat, test_grad_x_mat, test_grad_y_mat)
TestTriples == {<<"one", "one", "zero">>, <<"ramp", "alt", "one">>,
                <<"alt", "ramp", "ramp">>}

\* (pred_nn, pred_grad_x_nn, pred_grad_y_nn)
FieldTriples == {<<"one", "one", "zero">>, <<"one", "zero", "zero">>,
                 <<"ramp", "alt", "ramp">>, <<"alt", "ramp", "one">>}

ForcingPatterns == {"zero", "two", "ramp"}

AllKeys == {"eps", "k", "b_x", "b_y", "c"}

Without(f, key) == [x \in (DOMAIN f) \ {key} |-> f[x]]

BilinearA == [x \in AllKeys |->
                 CASE x = "eps" -> 1 [] x = "k" -> 2 [] OTHER -> 0]

BilinearB == [x \in AllKeys |->
                 CASE x = "eps" -> 2 [] x = "k" -> 3 [] x = "b_x" -> 1
                   [] x = "b_y" -> 2 [] x = "c" -> 1]

BilinearC == [x \in AllKeys |->
                 CASE x = "eps" -> -1 [] x = "k" -> -2 [] x = "b_x" -> -1
                   [] x = "b_y" -> 1 [] x = "c" -> 2]

BilinearChoices ==
    {BilinearA, BilinearB, BilinearC}
      \cup {Without(BilinearB, key) : key \in AllKeys}

\* (inverse_params_dict, pattern of inverse_params_list[0])
EpsDict(v) == [x \in {"eps"} |-> v]
NoEpsDict == [x \in {} |-> 0]

InverseChoices == {<<EpsDict(2), "two">>, <<EpsDict(1), "ramp">>,
                   <<NoEpsDict, "one">>, <<EpsDict(3), "alt">>}

KernelArgs(E, T, Q, Qf, tt, ft, fp, bp, ic) ==
    [test_shape_val_mat  |-> Fill3(tt[1], E, T, Q),
     test_grad_x_mat     |-> Fill3(tt[2], E, T, Q),
     test_grad_y_mat     |-> Fill3(tt[3], E, T, Q),
     pred_nn             |-> Fill2(ft[1], E, Qf),
     pred_grad_x_nn      |-> Fill2(ft[2], E, Qf),
     pred_grad_y_nn      |-> Fill2(ft[3], E, Qf),
     forcing_function    |-> Fill2(fp, T, E),
     bilinear_params     |-> bp,
     inverse_params_dict |-> ic[1],
     inverse_params_list |-> <<Fill2(ic[2], E, Qf)>>]

KernelInputs ==
    { KernelArgs(E, T, Q, IF mm THEN (Q % MaxDim) + 1 ELSE Q,
                 tt, ft, fp, bp, ic) :
        E \in 1..MaxDim, T \in 1..MaxDim, Q \in 1..MaxDim,
        mm \in BOOLEAN, tt \in TestTriples, ft \in FieldTriples,
        fp \in ForcingPatterns, bp \in BilinearChoices,
        ic \in InverseChoices }

\* shapes as the kernels' contract states them
NElements(a) == Len(a.test_grad_x_mat)
NTest(a) == Len(a.test_grad_x_mat[1])
NQuad(a) == Len(a.test_grad_x_mat[1][1])

ShapesValid(a) ==
    /\ Rows(a.pred_nn) = NElements(a) /\ Cols(a.pred_nn) = NQuad(a)
    /\ Rows(a.forcing_function) = NTest(a)
    /\ Cols(a.forcing_function) = NElements(a)

\* The weak forms written out entry by entry, for test function t and
\* element e: sum over the quadrature points q of M[e,t,q] * d[e,q]
Contract(M, d, t, e) ==
    SumSeq([q \in 1..Len(d[e]) |-> M[e][t][q] * d[e][q]])

\* the same with the per-point coefficient w inside the sum
ContractWeighted(M, w, d, t, e) ==
    SumSeq([q \in 1..Len(d[e]) |-> M[e][t][q] * w[e][q] * d[e][q]])

WeakFormPoisson(a, t, e) ==
    a.inverse_params_dict["eps"]
      * (Contract(a.test_grad_x_mat, a.pred_grad_x_nn, t, e)
           + Contract(a.test_grad_y_mat, a.pred_grad_y_nn, t, e))

WeakFormCd2d(a, t, e) ==
    ContractWeighted(a.test_grad_x_mat, a.inverse_params_list[1],
                     a.pred_grad_x_nn, t, e)
      + ContractWeighted(a.test_grad_y_mat, a.inverse_params_list[1],
                         a.pred_grad_y_nn, t, e)
      + a.bilinear_params["b_x"]
          * Contract(a.test_shape_val_mat, a.pred_grad_x_nn, t, e)
      + a.bilinear_params["b_y"]
          * Contract(a.test_shape_val_mat, a.pred_grad_y_nn, t, e)
      + a.bilinear_params["c"]
          * Contract(a.test_shape_val_mat, a.pred_nn, t, e)

WeakFormHelmholtz(a, t, e) ==
    (0 - a.bilinear_params["eps"])
        * (Contract(a.test_grad_x_mat, a.pred_grad_x_nn, t, e)
             + Contract(a.test_grad_y_mat, a.pred_grad_y_nn, t, e))
      + a.bilinear_params["k"] * a.bilinear_params["k"]
          * Contract(a.test_shape_val_mat, a.pred_nn, t, e)

WeakForm(name, a, t, e) ==
    CASE name = "poisson" -> WeakFormPoisson(a, t, e)
      [] name = "cd2d" -> WeakFormCd2d(a, t, e)
      [] name = "helmholtz" -> WeakFormHelmholtz(a, t, e)

\* arguments whose forcing is synthesised to satisfy the weak form of one
\* of the kernels exactly
WithExactForcing(a, name) ==
    [a EXCEPT !.forcing_function =
        [t \in 1..NTest(a) |->
            [e \in 1..NElements(a) |-> WeakForm(name, a, t, e)]]]

ExactInputs ==
    { WithExactForcing(KernelArgs(E, T, Q, Q, tt, ft, "zero", bp, ic), name) :
        E \in 1..MaxDim, T \in 1..MaxDim, Q \in 1..MaxDim,
        tt \in TestTriples, ft \in FieldTriples,
        bp \in {BilinearA, BilinearB, BilinearC},
        ic \in {x \in InverseChoices : "eps" \in DOMAIN x[1]},
        name \in {"poisson", "cd2d", "helmholtz"} }

(* Kernel invocations *)

CallPoisson ==
    /\ kname' = "poisson"
    /\ kout' = pde_loss_poisson_inverse(kin)
    /\ UNCHANGED <<kin, klog, tvars>>

CallHelmholtz ==
    /\ kname' = "helmholtz"
    /\ kout' = pde_loss_helmholtz(kin)
    /\ UNCHANGED <<kin, klog, tvars>>

CallCd2d ==
    /\ kname' = "cd2d"
    /\ kout' = pde_loss_cd2d_inverse_domain(kin)
    /\ UNCHANGED <<kin, klog, tvars>>

----------------------------------------------------------------------------
(* model_vector_transient.py: DenseModel *)

\* layer_dims = [3, 3]: inputs (x, y, t), outputs (Ez, Hx, Hy), no hidden
\* layer; trainable_variables = the 3x3 kernel (row-major) and the bias
InputWidth == 3
NChannels == 3
NParams == InputWidth * NChannels + NChannels

\* the dtype every dense layer is created with
LayerDType == "float32"

\* train_step's default weights
DefaultBetaBoundary == 10
DefaultBetaInitial == 100

\* a Glorot-style fixed-seed kernel and a zero bias
InitialParams == <<1, 0, -1,  0, 1, 0,  1, -1, 1,  0, 0, 0>>

ZeroVec == [i \in 1..NParams |-> RInt(0)]

ZeroMoments == [i \in 1..NParams |-> 0]

\* tf.keras.optimizers.Adam before the first apply
NewOptimizer == [built |-> TRUE, iterations |-> 0, m |-> ZeroMoments,
                 v |-> ZeroMoments]

NoOptimizer == [built |-> FALSE, iterations |-> 0, m |-> ZeroMoments,
                v |-> ZeroMoments]

\* DenseModel.call for a batch X of rows of InputWidth coordinates
CallOk(X) == Cols(X) = InputWidth

Call(p, X) ==
    [i \in 1..Len(X) |->
        [c \in 1..NChannels |->
            SumSeq([j \in 1..InputWidth |->
                        X[i][j] * p[(j - 1) * NChannels + c]])
              + p[InputWidth * NChannels + c]]]

\* Y[:, c-1:c]
Slice(Y, c) == [i \in 1..Len(Y) |-> <<Y[i][c]>>]

\* tape1.gradient(field c, input_tensor): one row of d(field)/d(x, y, t)
\* per input point
FieldGradient(p, X, c) ==
    [i \in 1..Len(X) |->
        [j \in 1..InputWidth |-> p[(j - 1) * NChannels + c]]]

\* tf.reduce_mean(tf.square(P - A)) over every entry
MeanSquare(P, A) ==
    LET D == Square(BSub(P, A))
    IN  Rat(SumSeq([i \in 1..Rows(D) |-> SumSeq(D[i])]), Rows(D) * Cols(D))

\* a step that insists on equal interior and boundary batches
BoundaryLossOkSameBatch(l, d) ==
    /\ BroadcastOk(l.predicted_values_dirichlet, d.dirichlet_actual)
    /\ Len(d.input_tensor) = Len(d.dirichlet_input)

\* predicted_values_dirichlet - self.dirichlet_actual must broadcast
BoundaryLossOk(l, d) ==
    BroadcastOk(l.predicted_values_dirichlet, d.dirichlet_actual)

InitialLossOk(l, d) ==
    /\ BroadcastOk(l.predicted_values_initial_Ez, d.initial_Ez_actual)
    /\ BroadcastOk(l.predicted_values_initial_Hx, d.initial_Hx_actual)
    /\ BroadcastOk(l.predicted_values_initial_Hy, d.initial_Hy_actual)

\* a combination that drops the initial-condition weight
TotalLossUnweighted(pde, bl, il, bb, bi) ==
    RAdd(pde, RAdd(RMul(RInt(bb), bl), RSumSeq(il)))

\* pde_residual + beta_boundary * boundary_loss
\*   + beta_initial * (initial_Ez_loss + initial_Hx_loss + initial_Hy_loss)
TotalLoss(pde, bl, il, bb, bi) ==
    RAdd(pde, RAdd(RMul(RInt(bb), bl), RMul(RInt(bi), RSumSeq(il))))

\* d(beta * reduce_mean(square(P - A)))/d(parameter k), where P is channel
\* ch of the network's output on the batch X: the chain rule through
\* DenseModel.call, whose output channel c depends on kernel[j][c] with
\* factor X[i][j] and on bias[c] with factor 1
LossGradient(X, ch, P, A, beta, k) ==
    LET nk == InputWidth * NChannels
        j  == IF k > nk THEN 0 ELSE ((k - 1) \div NChannels) + 1
        c  == IF k > nk THEN k - nk ELSE ((k - 1) % NChannels) + 1
        R  == Max(Rows(P), Rows(A))
    IN  IF c # ch THEN RInt(0)
        ELSE Rat(beta * SumSeq([i \in 1..R |->
                     2 * (P[Pick(Rows(P), i)][1] - A[Pick(Rows(A), i)][1])
                       * (IF j = 0 THEN 1 ELSE X[Pick(Rows(P), i)][j])]),
                 R)

\* tape.gradient(total_loss, trainable_vars); l.pde_grad is
\* d(pde_residual)/d(parameter) as the loss function's graph gives it
ParamGradient(l, d) ==
    [k \in 1..NParams |->
        RSumSeq(<<RInt(l.pde_grad),
                  LossGradient(d.dirichlet_input, 1,
                               l.predicted_values_dirichlet,
                               d.dirichlet_actual, l.beta_boundary, k),
                  LossGradient(d.initial_Ez_input, 1,
                               l.predicted_values_initial_Ez,
                               d.initial_Ez_actual, l.beta_initial, k),
                  LossGradient(d.initial_Hx_input, 2,
                               l.predicted_values_initial_Hx,
                               d.initial_Hx_actual, l.beta_initial, k),
                  LossGradient(d.initial_Hy_input, 3,
                               l.predicted_values_initial_Hy,
                               d.initial_Hy_actual, l.beta_initial, k)>>)]

Sign(r) == IF r[1] > 0 THEN 1 ELSE IF r[1] < 0 THEN -1 ELSE 0

\* Adam.apply_gradients: one step per variable against the gradient's sign
\* (the size of Adam's bias-corrected first step); the first and second
\* moments accumulate the gradient's sign and its square
ApplyParams(p, gr) == [i \in 1..NParams |-> p[i] - Sign(gr[i])]

ApplyOptimizer(o, gr) ==
    [o EXCEPT !.iterations = @ + 1,
              !.m = [i \in 1..NParams |-> o.m[i] + Sign(gr[i])],
              !.v = [i \in 1..NParams |-> o.v[i] + Sign(gr[i]) * Sign(gr[i])]]

----------------------------------------------------------------------------
(* DenseModel.__init__ *)

\* isinstance(tensor_dtype, tf.DType)
IsDType(x) == x \in {"float32", "float64"}

\* (tensor_dtype argument, dtype of the supplied input tensors)
DTypeChoices == {<<"float32", "float32">>, <<"float64", "float32">>,
                 <<"float32", "float64">>, <<"not_a_dtype", "float32">>}

NoData == [input_tensor |-> <<>>, dirichlet_input |-> <<>>,
           dirichlet_actual |-> <<>>,
           initial_Ez_input |-> <<>>, initial_Ez_actual |-> <<>>,
           initial_Hx_input |-> <<>>, initial_Hx_actual |-> <<>>,
           initial_Hy_input |-> <<>>, initial_Hy_actual |-> <<>>]

\* input_tensors_list[0..8]
InputTensorsList(N, Nb, Nba, Ni, Nia, wI, wB) ==
    [input_tensor      |-> Fill2("ramp", N, wI),
     dirichlet_input   |-> Fill2("alt", Nb, wB),
     dirichlet_actual  |-> Fill2("one", Nba, 1),
     initial_Ez_input  |-> Fill2("ramp", Ni, InputWidth),
     initial_Ez_actual |-> Fill2("zero", Nia, 1),
     initial_Hx_input  |-> Fill2("alt", Ni, InputWidth),
     initial_Hx_actual |-> Fill2("one", Nia, 1),
     initial_Hy_input  |-> Fill2("one", Ni, InputWidth),
     initial_Hy_actual |-> Fill2("two", Nia, 1)]

\* (width of input_tensor, width of dirichlet_input)
WidthChoices == {<<InputWidth, InputWidth>>, <<InputWidth - 1, InputWidth>>,
                 <<InputWidth, InputWidth - 1>>}

NoLocals ==
    [beta_boundary |-> 0, beta_initial |-> 0, args |-> <<>>,
     predicted_values_dirichlet |-> <<>>,
     predicted_values_initial_Ez |-> <<>>,
     predicted_values_initial_Hx |-> <<>>,
     predicted_values_initial_Hy |-> <<>>,
     Ez |-> <<>>, Hx |-> <<>>, Hy |-> <<>>,
     grad_Ez |-> <<>>, grad_Hx |-> <<>>, grad_Hy |-> <<>>,
     pde_residual |-> RInt(0), pde_grad |-> 0,
     boundary_loss |-> RInt(0),
     initial_losses |-> <<RInt(0), RInt(0), RInt(0)>>,
     total_loss |-> RInt(0)]

NoReturn == [ok |-> FALSE, err |-> "nocall", loss_pde |-> RInt(0),
             loss_dirichlet |-> RInt(0), loss_initial |-> RInt(0),
             loss |-> RInt(0)]

NoHist == [snap |-> <<>>, applied |-> 0, done |-> {}, failed_at |-> "none",
           steps |-> 0, steps_ok |-> 0]

Construct ==
    /\ mstate = "new"
    /\ \E dt \in DTypeChoices, w \in WidthChoices,
          N \in 2..MaxBatch, Nb \in 2..MaxBatch, Ni \in 2..MaxBatch,
          Nba \in 1..MaxBatch, Nia \in 1..MaxBatch :
         IF ~IsDType(dt[1])
         THEN \* raise TypeError: nothing after line 148 runs
              /\ mstate' = "ctor_failed"
              /\ cfg' = [tensor_dtype |-> dt[1], input_dtype |-> dt[2],
                         layer_dtype |-> "none", err |-> "TypeError"]
              /\ UNCHANGED <<data, params, optimizer, gradients, epoch>>
         ELSE /\ mstate' = "built"
              /\ cfg' = [tensor_dtype |-> dt[1], input_dtype |-> dt[2],
                         layer_dtype |-> LayerDType, err |-> "none"]
              /\ data' = InputTensorsList(N, Nb, Nba, Ni, Nia, w[1], w[2])
              /\ epoch' = 0
              /\ optimizer' = NewOptimizer
              /\ params' = InitialParams
              /\ UNCHANGED gradients
    /\ UNCHANGED <<kvars, pc, loc, ret, hist>>

----------------------------------------------------------------------------
(* DenseModel.train_step *)

\* a step that applies the optimizer before the losses are computed
StepOrderApplyEarly ==
    <<"predict_bc", "predict_interior", "field_grads", "residual", "apply",
      "losses", "combine", "gradient", "report">>

\* a step that applies the optimizer before the gradient is taken
StepOrderApplyFirst ==
    <<"predict_bc", "predict_interior", "field_grads", "residual", "losses",
      "combine", "apply", "gradient", "report">>

\* the statements of train_step in program order
StepOrder ==
    <<"predict_bc", "predict_interior", "field_grads", "residual", "losses",
      "combine", "gradient", "apply", "report">>

IndexOf(stage) == CHOOSE i \in 1..Len(StepOrder) : StepOrder[i] = stage

After(stage) ==
    IF IndexOf(stage) = Len(StepOrder) THEN "done"
    ELSE StepOrder[IndexOf(stage) + 1]

\* (beta_boundary, beta_initial) as passed: <<>> when left to the default
BetaArgs == {<<<<>>, <<>>>>, <<<<1>>, <<2>>>>, <<<<3>>, <<>>>>}

\* what the caller's loss_function does: raise, or return the residual
\* scalar together with its derivative w.r.t. the parameters
LossFnOutcomes ==
    {[ok |-> FALSE, val |-> RInt(0), g |-> 0],
     [ok |-> TRUE, val |-> RInt(1), g |-> 1],
     [ok |-> TRUE, val |-> <<1, 2>>, g |-> -1]}

Advance(stage) ==
    /\ pc' = After(stage)
    /\ hist' = [hist EXCEPT !.done = @ \cup {stage}]

Fail(stage, e) ==
    /\ pc' = "failed"
    /\ ret' = [NoReturn EXCEPT !.err = e]
    /\ hist' = [hist EXCEPT !.failed_at = stage]

StartStep ==
    /\ mstate = "built"
    /\ pc \in {"idle", "done", "failed"}
    /\ hist.steps < MaxSteps
    /\ \E a \in BetaArgs :
         loc' = [NoLocals EXCEPT
                   !.args = a,
                   !.beta_boundary =
                       IF a[1] = <<>> THEN DefaultBetaBoundary ELSE a[1][1],
                   !.beta_initial =
                       IF a[2] = <<>> THEN DefaultBetaInitial ELSE a[2][1]]
    /\ hist' = [snap |-> <<params, optimizer, epoch>>, applied |-> 0,
                done |-> {}, failed_at |-> "none",
                steps |-> hist.steps + 1, steps_ok |-> hist.steps_ok]
    /\ pc' = StepOrder[1]
    /\ UNCHANGED <<kvars, mstate, cfg, data, params, optimizer, gradients,
                   epoch, ret>>

PredictBoundaryInitial ==
    /\ pc = "predict_bc"
    /\ IF /\ CallOk(data.dirichlet_input) /\ CallOk(data.initial_Ez_input)
          /\ CallOk(data.initial_Hx_input) /\ CallOk(data.initial_Hy_input)
       THEN /\ loc' = [loc EXCEPT
                  !.predicted_values_dirichlet =
                      Slice(Call(params, data.dirichlet_input), 1),
                  !.predicted_values_initial_Ez =
                      Slice(Call(params, data.initial_Ez_input), 1),
                  !.predicted_values_initial_Hx =
                      Slice(Call(params, data.initial_Hx_input), 2),
                  !.predicted_values_initial_Hy =
                      Slice(Call(params, data.initial_Hy_input), 3)]
            /\ Advance("predict_bc")
            /\ UNCHANGED ret
       ELSE /\ Fail("predict_bc", "ValueError")
            /\ UNCHANGED loc
    /\ UNCHANGED <<kvars, mstate, cfg, data, params, optimizer, gradients,
                   epoch>>

PredictInterior ==
    /\ pc = "predict_interior"
    /\ IF CallOk(data.input_tensor)
       THEN /\ loc' = [loc EXCEPT
                  !.Ez = Slice(Call(params, data.input_tensor), 1),
                  !.Hx = Slice(Call(params, data.input_tensor), 2),
                  !.Hy = Slice(Call(params, data.input_tensor), 3)]
            /\ Advance("predict_interior")
            /\ UNCHANGED ret
       ELSE /\ Fail("predict_interior", "ValueError")
            /\ UNCHANGED loc
    /\ UNCHANGED <<kvars, mstate, cfg, data, params, optimizer, gradients,
                   epoch>>

FieldGradients ==
    /\ pc = "field_grads"
    /\ loc' = [loc EXCEPT
           !.grad_Ez = FieldGradient(params, data.input_tensor, 1),
           !.grad_Hx = FieldGradient(params, data.input_tensor, 2),
           !.grad_Hy = FieldGradient(params, data.input_tensor, 3)]
    /\ Advance("field_grads")
    /\ UNCHANGED <<kvars, mstate, cfg, data, params, optimizer, gradients,
                   epoch, ret>>

Residual ==
    /\ pc = "residual"
    /\ \E o \in LossFnOutcomes :
         IF o.ok
         THEN /\ loc' = [loc EXCEPT !.pde_residual = o.val, !.pde_grad = o.g]
              /\ Advance("residual")
              /\ UNCHANGED ret
         ELSE /\ Fail("residual", "LossFunctionError")
              /\ UNCHANGED loc
    /\ UNCHANGED <<kvars, mstate, cfg, data, params, optimizer, gradients,
                   epoch>>

Losses ==
    /\ pc = "losses"
    /\ IF cfg.input_dtype # cfg.layer_dtype
       THEN \* float32 predictions minus targets of another dtype
            /\ Fail("losses", "TypeError")
            /\ UNCHANGED loc
       ELSE
       IF BoundaryLossOk(loc, data) /\ InitialLossOk(loc, data)
       THEN /\ loc' = [loc EXCEPT
                  !.boundary_loss =
                      MeanSquare(loc.predicted_values_dirichlet,
                                 data.dirichlet_actual),
                  !.initial_losses =
                      <<MeanSquare(loc.predicted_values_initial_Ez,
                                   data.initial_Ez_actual),
                        MeanSquare(loc.predicted_values_initial_Hx,
                                   data.initial_Hx_actual),
                        MeanSquare(loc.predicted_values_initial_Hy,
                                   data.initial_Hy_actual)>>]
            /\ Advance("losses")
            /\ UNCHANGED ret
       ELSE /\ Fail("losses", "ValueError")
            /\ UNCHANGED loc
    /\ UNCHANGED <<kvars, mstate, cfg, data, params, optimizer, gradients,
                   epoch>>

Combine ==
    /\ pc = "combine"
    /\ loc' = [loc EXCEPT !.total_loss =
                   TotalLoss(loc.pde_residual, loc.boundary_loss,
                             loc.initial_losses, loc.beta_boundary,
                             loc.beta_initial)]
    /\ Advance("combine")
    /\ UNCHANGED <<kvars, mstate, cfg, data, params, optimizer, gradients,
                   epoch, ret>>

Gradient ==
    /\ pc = "gradient"
    /\ gradients' = ParamGradient(loc, data)
    /\ Advance("gradient")
    /\ UNCHANGED <<kvars, mstate, cfg, data, params, optimizer, epoch, loc,
                   ret>>

Apply ==
    /\ pc = "apply"
    /\ params' = ApplyParams(params, gradients)
    /\ optimizer' = ApplyOptimizer(optimizer, gradients)
    /\ pc' = After("apply")
    /\ hist' = [hist EXCEPT !.done = @ \cup {"apply"}, !.applied = @ + 1]
    /\ UNCHANGED <<kvars, mstate, cfg, data, gradients, epoch, loc, ret>>

Report ==
    /\ pc = "report"
    /\ ret' = [ok |-> TRUE, err |-> "none",
               loss_pde |-> loc.pde_residual,
               loss_dirichlet |-> loc.boundary_loss,
               loss_initial |-> RSumSeq(loc.initial_losses),
               loss |-> loc.total_loss]
    /\ pc' = After("report")
    /\ hist' = [hist EXCEPT !.done = @ \cup {"report"},
                            !.steps_ok = @ + 1]
    /\ UNCHANGED <<kvars, mstate, cfg, data, params, optimizer, gradients,
                   epoch, loc>>

----------------------------------------------------------------------------
(* Specifications *)

TrainInit ==
    /\ mstate = "new"
    /\ cfg = [tensor_dtype |-> "none", input_dtype |-> "none",
              layer_dtype |-> "none", err |-> "none"]
    /\ data = NoData
    /\ params = <<>>
    /\ optimizer = NoOptimizer
    /\ gradients = ZeroVec
    /\ epoch = 0
    /\ pc = "idle"
    /\ loc = NoLocals
    /\ ret = NoReturn
    /\ hist = NoHist

\* residual kernels applied to every argument set of KernelInputs
KernelInit ==
    /\ kin \in KernelInputs \cup ExactInputs
    /\ kname = "none"
    /\ kout = NoCall
    /\ klog = <<>>
    /\ TrainInit

KernelNext == CallPoisson \/ CallHelmholtz \/ CallCd2d

KernelSpec == KernelInit /\ [][KernelNext]_vars

\* construction of a DenseModel followed by training steps
Init ==
    /\ kin = KernelArgs(1, 1, 1, 1, <<"one", "one", "zero">>,
                        <<"one", "one", "zero">>, "zero", BilinearA,
                        <<EpsDict(2), "two">>)
    /\ kname = "none"
    /\ kout = NoCall
    /\ klog = <<>>
    /\ TrainInit

Next ==
    \/ Construct
    \/ StartStep
    \/ PredictBoundaryInitial
    \/ PredictInterior
    \/ FieldGradients
    \/ Residual
    \/ Losses
    \/ Combine
    \/ Gradient
    \/ Apply
    \/ Report

Spec == Init /\ [][Next]_vars

\* a session: several kernel invocations in a row on arguments of the
\* contract's shapes (E elements, MaxDim test functions and quadrature
\* points), the caller rescaling eps between two of them
SessionInputs ==
    { KernelArgs(E, MaxDim, MaxDim, MaxDim, tt, ft, fp, bp, ic) :
        E \in 1..MaxDim,
        tt \in TestTriples, ft \in FieldTriples, fp \in ForcingPatterns,
        bp \in {BilinearA, BilinearB}, ic \in InverseChoices }

SessionInit ==
    /\ kin \in SessionInputs
    /\ kname = "none"
    /\ kout = NoCall
    /\ klog = <<>>
    /\ TrainInit

Logged(name, args, out) == [name |-> name, args |-> args, out |-> out]

InvokePoisson ==
    /\ Len(klog) < MaxCalls
    /\ kname' = "poisson"
    /\ kout' = pde_loss_poisson_inverse(kin)
    /\ klog' = Append(klog, Logged("poisson", kin, kout'))
    /\ UNCHANGED <<kin, tvars>>

InvokeHelmholtz ==
    /\ Len(klog) < MaxCalls
    /\ kname' = "helmholtz"
    /\ kout' = pde_loss_helmholtz(kin)
    /\ klog' = Append(klog, Logged("helmholtz", kin, kout'))
    /\ UNCHANGED <<kin, tvars>>

\* a kernel that scales the predicted gradient by the coefficient in place
InvokeCd2dInPlace ==
    /\ Len(klog) < MaxCalls
    /\ kname' = "cd2d"
    /\ kout' = pde_loss_cd2d_inverse_domain(kin)
    /\ klog' = Append(klog, Logged("cd2d", kin, kout'))
    /\ kin' = [kin EXCEPT !.pred_grad_x_nn =
                   BMul(kin.pred_grad_x_nn, kin.inverse_params_list[1])]
    /\ UNCHANGED tvars

InvokeCd2d ==
    /\ Len(klog) < MaxCalls
    /\ kname' = "cd2d"
    /\ kout' = pde_loss_cd2d_inverse_domain(kin)
    /\ klog' = Append(klog, Logged("cd2d", kin, kout'))
    /\ UNCHANGED <<kin, tvars>>

\* the caller replaces inverse_params_dict["eps"] by c * eps after a
\* Poisson invocation, everything else as it was
ScaleEps ==
    /\ klog # <<>>
    /\ Len(klog) < MaxCalls
    /\ klog[Len(klog)].name = "poisson"
    /\ klog[Len(klog)].args = kin
    /\ "eps" \in DOMAIN kin.inverse_params_dict
    /\ \E c \in 2..MaxScale :
         kin' = [kin EXCEPT !.inverse_params_dict =
                                EpsDict(c * kin.inverse_params_dict["eps"])]
    /\ UNCHANGED <<kname, kout, klog, tvars>>

SessionNext == InvokePoisson \/ InvokeHelmholtz \/ InvokeCd2d \/ ScaleEps

SessionSpec == SessionInit /\ [][SessionNext]_vars

----------------------------------------------------------------------------
(* Properties of the residual kernels (checked under KernelSpec) *)

C1_Scenario ==
    /\ kname = "poisson"
    /\ kin.inverse_params_dict = EpsDict(2)
    /\ kin.test_grad_x_mat = << << <<1, 1>> >> >>
    /\ kin.test_grad_y_mat = << << <<0, 0>> >> >>
    /\ kin.pred_grad_x_nn = << <<1, 1>> >>
    /\ kin.pred_grad_y_nn = << <<0, 0>> >>
    /\ kin.forcing_function = << <<2>> >>

\* C1 as stated: on the Poisson scenario (eps = 2, one element, one test
\* function, two quadrature points, forcing 2) the pre-square residual is 6
\* and the per-element residual is 36.
C1_Original ==
    C1_Scenario =>
        /\ kout.residual_matrix = << <<6>> >>
        /\ kout.residual_cells = << RInt(36) >>

\* C1 amended: on the Poisson scenario the pre-square residual is
\* 2 * (1*1 + 1*1 + 0) - 2 = 2 and the per-element residual is 4; eps
\* scales the contraction once.
C1_PoissonScenario ==
    C1_Scenario =>
        /\ kout.ok
        /\ kout.residual_matrix = << <<2>> >>
        /\ kout.residual_cells = << RInt(4) >>

C1_Witness == C1_Scenario /\ kout.ok /\ Len(kout.residual_cells) = 1

C2_Scenario ==
    /\ kname = "helmholtz"
    /\ {"eps", "k"} \subseteq DOMAIN kin.bilinear_params
    /\ kin.bilinear_params["eps"] = 1
    /\ kin.bilinear_params["k"] = 2
    /\ kin.test_shape_val_mat = << << <<1>> >> >>
    /\ Len(kin.test_grad_x_mat) = 1
    /\ kin.pred_nn = << <<1>> >>
    /\ kin.pred_grad_x_nn = << <<0>> >>
    /\ kin.pred_grad_y_nn = << <<0>> >>
    /\ kin.forcing_function = << <<0>> >>

\* C2: on the Helmholtz scenario (eps = 1, k = 2, zero gradients, pred 1,
\* test value 1, forcing 0) the wave term is 4, the diffusion 0, the
\* pre-square residual 4 and the per-element residual 16.
C2_HelmholtzScenario ==
    C2_Scenario =>
        /\ kout.ok
        /\ Transpose(MatVec(kin.test_grad_x_mat, kin.pred_grad_x_nn))
             = << <<0>> >>
        /\ Transpose(MatVec(kin.test_grad_y_mat, kin.pred_grad_y_nn))
             = << <<0>> >>
        /\ kout.residual_matrix = << <<4>> >>
        /\ kout.residual_cells = << RInt(16) >>

C2_Witness == C2_Scenario /\ kout.ok /\ kout.residual_cells # <<>>

\* C3: for each kernel and all inputs of the contract's shapes, the result
\* has exactly E entries, and entry e is the mean over the T test functions
\* of the squared residuals of element e alone.
C3_ShapeInvariant ==
    (kname \in {"poisson", "cd2d", "helmholtz"} /\ ShapesValid(kin)
       /\ kout.ok) =>
        /\ Len(kout.residual_cells) = NElements(kin)
        /\ Len(kout.residual_matrix) = NTest(kin)
        /\ \A e \in 1..NElements(kin) :
             kout.residual_cells[e] =
                 Rat(SumSeq([t \in 1..NTest(kin) |->
                         kout.residual_matrix[t][e]
                           * kout.residual_matrix[t][e]]),
                     NTest(kin))

C3_Witness ==
    /\ kname = "cd2d" /\ ShapesValid(kin) /\ kout.ok
    /\ NElements(kin) = 2 /\ NTest(kin) = 1 /\ NQuad(kin) = 2
    /\ Len(kout.residual_cells) = 2
    /\ kout.residual_cells[1] # kout.residual_cells[2]

\* a key the invoked kernel's PDE requires is absent from its mapping
RequiredKeyMissing ==
    CASE kname = "cd2d" ->
           ~({"b_x", "b_y", "c"} \subseteq DOMAIN kin.bilinear_params)
      [] kname = "helmholtz" ->
           ~({"eps", "k"} \subseteq DOMAIN kin.bilinear_params)
      [] kname = "poisson" -> "eps" \notin DOMAIN kin.inverse_params_dict
      [] OTHER -> FALSE

\* C8 as stated: a kernel whose mapping lacks a required key fails with
\* MissingCoefficientError and returns no residual.
C8_Original ==
    RequiredKeyMissing =>
        /\ ~kout.ok
        /\ kout.err = "MissingCoefficientError"
        /\ kout.residual_cells = <<>>

\* C8 amended: a kernel whose mapping lacks a required key raises and
\* returns no residual; the exception is KeyError when the input shapes
\* are consistent, and otherwise KeyError or the shape error of a
\* contraction evaluated before the lookup.
C8_MissingKeyRaises ==
    RequiredKeyMissing =>
        /\ ~kout.ok
        /\ kout.residual_cells = <<>>
        /\ kout.err \in {"KeyError", "InvalidArgumentError"}
        /\ ShapesValid(kin) => kout.err = "KeyError"

C8_Witness ==
    /\ RequiredKeyMissing /\ kname = "cd2d" /\ ShapesValid(kin)
    /\ "b_y" \notin DOMAIN kin.bilinear_params
    /\ kout.err = "KeyError"

----------------------------------------------------------------------------
(* Properties of DenseModel (checked under Spec) *)

\* C4: the losses a successful train_step reports satisfy
\* loss = loss_pde + beta_boundary * loss_dirichlet
\*        + beta_initial * loss_initial, loss_initial being the unweighted
\* sum of the three initial-condition losses; the weights are 10 and 100
\* unless the caller supplies them.
C4_LossCombination ==
    (pc = "done" /\ ret.ok) =>
        /\ ret.loss =
             RAdd(ret.loss_pde,
                  RAdd(RMul(RInt(loc.beta_boundary), ret.loss_dirichlet),
                       RMul(RInt(loc.beta_initial), ret.loss_initial)))
        /\ ret.loss_initial =
             RAdd(loc.initial_losses[1],
                  RAdd(loc.initial_losses[2], loc.initial_losses[3]))
        /\ loc.beta_boundary =
             (IF loc.args[1] = <<>> THEN 10 ELSE loc.args[1][1])
        /\ loc.beta_initial =
             (IF loc.args[2] = <<>> THEN 100 ELSE loc.args[2][1])

C4_Witness ==
    /\ pc = "done" /\ ret.ok
    /\ loc.args = << <<3>>, <<>> >>
    /\ ret.loss_dirichlet[1] > 0 /\ ret.loss_initial[1] > 0
    /\ ret.loss_pde[1] > 0

\* C5: when a train_step fails, the trainable parameters, the optimizer
\* state and the epoch counter equal their values at the step's entry.
C5_AllOrNothing ==
    pc = "failed" => <<params, optimizer, epoch>> = hist.snap

C5_Witness ==
    /\ pc = "failed" /\ hist.failed_at = "residual"
    /\ optimizer.iterations = 1 /\ hist.steps = 2
    /\ params # InitialParams

ForwardBackwardStages ==
    {"predict_bc", "predict_interior", "field_grads", "residual", "losses",
     "combine", "gradient"}

\* C6: in a train_step the parameters and the optimizer state change in one
\* place only, the optimizer apply, once, after every forward prediction,
\* the residual, the losses and the gradient of the total loss of that step
\* are complete; a step starts only when no step is running.
C6_MutateOnceAtEnd ==
    [][ mstate = "built" =>
          /\ (params' # params \/ optimizer' # optimizer) =>
                /\ pc = "apply"
                /\ ForwardBackwardStages \subseteq hist.done
                /\ hist.applied = 0
          /\ pc' = "done" => hist'.applied = 1
          /\ hist'.steps # hist.steps => pc \in {"idle", "done", "failed"}
      ]_vars

C6_Witness ==
    /\ pc = "done" /\ hist.applied = 1 /\ hist.steps = 2
    /\ hist.steps_ok = 2 /\ params # hist.snap[1]

\* C7: after n successful train_steps on a freshly constructed model the
\* epoch counter equals n.
C7_EpochCountsSteps ==
    mstate = "built" => epoch = hist.steps_ok

BatchesDiffer ==
    mstate = "built" /\ Len(data.input_tensor) # Len(data.dirichlet_input)

TargetsBroadcast ==
    /\ DimOk(Len(data.dirichlet_input), Len(data.dirichlet_actual))
    /\ DimOk(Len(data.initial_Ez_input), Len(data.initial_Ez_actual))
    /\ DimOk(Len(data.initial_Hx_input), Len(data.initial_Hx_actual))
    /\ DimOk(Len(data.initial_Hy_input), Len(data.initial_Hy_actual))

\* C9 as stated: a train_step whose interior and boundary point sets have
\* different batch sizes fails with ShapeMismatchError before any gradient
\* is computed.
C9_Original ==
    (BatchesDiffer /\ pc \in {"done", "failed"}) =>
        /\ pc = "failed"
        /\ ret.err = "ShapeMismatchError"
        /\ hist.done \cap {"field_grads", "gradient"} = {}

\* C9 amended: different interior and boundary batch sizes never make a
\* train_step fail; when such a step fails the cause lies elsewhere (an
\* input of the wrong width, a raising loss function, or predictions whose
\* dtype or shape does not match their target values), and a mismatch of
\* predictions and targets is raised after the field gradients are taken
\* and before the gradient of the loss.
C9_BatchesIndependent ==
    (BatchesDiffer /\ pc = "failed") =>
        \/ hist.failed_at = "predict_bc" /\ ~CallOk(data.dirichlet_input)
        \/ hist.failed_at = "predict_interior" /\ ~CallOk(data.input_tensor)
        \/ hist.failed_at = "residual" /\ ret.err = "LossFunctionError"
        \/ /\ hist.failed_at = "losses"
           /\ \/ ret.err = "TypeError" /\ cfg.input_dtype # LayerDType
              \/ ret.err = "ValueError" /\ ~TargetsBroadcast
           /\ "field_grads" \in hist.done /\ "gradient" \notin hist.done

C9_Witness ==
    /\ BatchesDiffer /\ pc = "done" /\ ret.ok
    /\ hist.applied = 1 /\ optimizer.iterations = 1

\* C10: a model is constructed only when tensor_dtype is a dtype equal to
\* the layers' and the input tensors' precision; otherwise construction
\* fails with InvalidDTypeError before optimizer and layers exist.
C10_NoMixedPrecision ==
    /\ mstate = "built" =>
          /\ cfg.tensor_dtype = cfg.layer_dtype
          /\ cfg.tensor_dtype = cfg.input_dtype
    /\ mstate = "ctor_failed" =>
          /\ cfg.err = "InvalidDTypeError"
          /\ ~optimizer.built /\ cfg.layer_dtype = "none"

\* the forcing equals the invoked kernel's weak-form terms entry by entry
ForcingIsExact ==
    /\ kname \in {"poisson", "cd2d", "helmholtz"}
    /\ kout.ok
    /\ ShapesValid(kin)
    /\ \A t \in 1..NTest(kin), e \in 1..NElements(kin) :
         kin.forcing_function[t][e] = WeakForm(kname, kin, t, e)

\* C12: when the forcing equals, entry by entry, the kernel's combined
\* weak-form terms computed from the same predictions and coefficients,
\* the per-element residual is 0 for every element.
C12_ZeroResidual ==
    ForcingIsExact =>
        /\ Len(kout.residual_cells) = NElements(kin)
        /\ \A e \in 1..NElements(kin) : kout.residual_cells[e] = RInt(0)

C12_Witness ==
    /\ ForcingIsExact /\ kname = "cd2d"
    /\ NElements(kin) = 2 /\ NTest(kin) = 2 /\ NQuad(kin) = 2
    /\ \A t \in 1..2, e \in 1..2 : kin.forcing_function[t][e] # 0
    /\ kin.forcing_function[1] # kin.forcing_function[2]
    /\ kout.residual_cells = <<RInt(0), RInt(0)>>

\* the mean over the test functions of the squared column e of R
MeanOfSquares(R, e) ==
    Rat(SumSeq([t \in 1..Len(R) |-> R[t][e] * R[t][e]]), Len(R))

\* C14: pde_loss_cd2d_inverse_domain computes, for every test function t
\* and element e, the pre-square residual
\*   sum_q Mx*eps*ux + sum_q My*eps*uy + b_x*sum_q V*ux + b_y*sum_q V*uy
\*     + c*sum_q V*u - f[t,e],
\* eps = inverse_params_list[0] per quadrature point inside the sums, and
\* returns for each element the mean over t of the squares.
C14_Cd2dFormula ==
    (kname = "cd2d" /\ kout.ok /\ ShapesValid(kin)) =>
        /\ \A t \in 1..NTest(kin), e \in 1..NElements(kin) :
             kout.residual_matrix[t][e] =
                 WeakFormCd2d(kin, t, e) - kin.forcing_function[t][e]
        /\ \A e \in 1..NElements(kin) :
             kout.residual_cells[e] = MeanOfSquares(kout.residual_matrix, e)

\* a call on which the coefficient differs between the quadrature points
\* of an element and applying it after the contraction would change the
\* residual
C14_Witness ==
    /\ kname = "cd2d" /\ kout.ok /\ ShapesValid(kin)
    /\ NTest(kin) = 2 /\ NQuad(kin) = 2
    /\ kin.inverse_params_list[1][1][1] # kin.inverse_params_list[1][1][2]
    /\ kin.bilinear_params["b_x"] # kin.bilinear_params["b_y"]
    /\ kin.bilinear_params["c"] # 0
    /\ ContractWeighted(kin.test_grad_x_mat, kin.inverse_params_list[1],
                        kin.pred_grad_x_nn, 1, 1)
         # kin.inverse_params_list[1][1][1]
             * Contract(kin.test_grad_x_mat, kin.pred_grad_x_nn, 1, 1)
    /\ kout.residual_cells[1][1] > 0

\* the same arguments with the wave number negated
NegateK(a) == [a EXCEPT !.bilinear_params["k"] = 0 - @]

\* C15: pde_loss_helmholtz computes, for every test function t and element
\* e, the pre-square residual
\*   -eps*(sum_q Mx*ux + sum_q My*uy) + k*k*sum_q V*u - f[t,e],
\* the diffusion term with a negative sign and the wave number only through
\* its square, so that k and -k give the same result, and returns for each
\* element the mean over t of the squares.
C15_HelmholtzFormula ==
    (kname = "helmholtz" /\ kout.ok /\ ShapesValid(kin)) =>
        /\ \A t \in 1..NTest(kin), e \in 1..NElements(kin) :
             kout.residual_matrix[t][e] =
                 WeakFormHelmholtz(kin, t, e) - kin.forcing_function[t][e]
        /\ \A e \in 1..NElements(kin) :
             kout.residual_cells[e] = MeanOfSquares(kout.residual_matrix, e)
        /\ pde_loss_helmholtz(NegateK(kin)) = kout

\* a call with a nonzero wave number on which both the diffusion and the
\* wave contraction are nonzero, so that the sign of the one and the square
\* of the other decide the residual
C15_Witness ==
    /\ kname = "helmholtz" /\ kout.ok /\ ShapesValid(kin)
    /\ NTest(kin) = 2 /\ NQuad(kin) = 2
    /\ kin.bilinear_params["k"] < 0
    /\ kin.bilinear_params["eps"] # 0
    /\ Contract(kin.test_grad_x_mat, kin.pred_grad_x_nn, 1, 1)
         + Contract(kin.test_grad_y_mat, kin.pred_grad_y_nn, 1, 1) # 0
    /\ Contract(kin.test_shape_val_mat, kin.pred_nn, 1, 1) # 0
    /\ kout.residual_cells[1][1] > 0
    /\ NegateK(kin) # kin

----------------------------------------------------------------------------
(* Properties of sessions of kernel invocations (checked under SessionSpec) *)

\* entries i and j of the log are Poisson invocations that returned, on
\* arguments that differ in inverse_params_dict only
PoissonPair(i, j) ==
    /\ klog[i].name = "poisson" /\ klog[j].name = "poisson"
    /\ klog[i].out.ok /\ klog[j].out.ok
    /\ [klog[j].args EXCEPT !.inverse_params_dict = EpsDict(0)]
         = [klog[i].args EXCEPT !.inverse_params_dict = EpsDict(0)]

\* the diffusion contribution to the pre-square residual matrix of entry i:
\* what the residual matrix holds besides -forcing
DiffusionPart(i) ==
    BAdd(klog[i].out.residual_matrix, klog[i].args.forcing_function)

\* C11: with all other inputs fixed, replacing eps by c * eps (c > 0)
\* multiplies the diffusion contribution to the pre-square residual matrix
\* of pde_loss_poisson_inverse by c in every (test function, element)
\* entry, and the forcing contribution stays what it was.
C11_EpsScaling ==
    \A i \in 1..Len(klog), j \in 1..Len(klog), c \in 1..MaxScale :
        (PoissonPair(i, j)
           /\ klog[j].args.inverse_params_dict["eps"]
                = c * klog[i].args.inverse_params_dict["eps"]) =>
            /\ DiffusionPart(j) = SMul(c, DiffusionPart(i))
            /\ BSub(klog[j].out.residual_matrix, SMul(c, DiffusionPart(i)))
                 = BSub(klog[i].out.residual_matrix, DiffusionPart(i))
            /\ \A t \in 1..NTest(kin), e \in 1..NElements(kin) :
                 klog[j].out.residual_matrix[t][e]
                   = c * DiffusionPart(i)[t][e]
                       - klog[i].args.forcing_function[t][e]

C11_Witness ==
    /\ Len(klog) = 2 /\ PoissonPair(1, 2)
    /\ klog[2].args.inverse_params_dict["eps"]
         = 3 * klog[1].args.inverse_params_dict["eps"]
    /\ \E t \in 1..NTest(kin), e \in 1..NElements(kin) :
         /\ DiffusionPart(1)[t][e] # 0
         /\ klog[1].args.forcing_function[t][e] # 0
    /\ klog[2].out.residual_cells # klog[1].out.residual_cells

\* the kernel of that name run on its own
RunAlone(name, a) ==
    CASE name = "poisson" -> pde_loss_poisson_inverse(a)
      [] name = "helmholtz" -> pde_loss_helmholtz(a)
      [] name = "cd2d" -> pde_loss_cd2d_inverse_domain(a)

SameTensors(p, d) ==
    /\ p.test_grad_x_mat = d.test_grad_x_mat
    /\ p.test_grad_y_mat = d.test_grad_y_mat
    /\ p.pred_grad_x_nn = d.pred_grad_x_nn
    /\ p.pred_grad_y_nn = d.pred_grad_y_nn
    /\ p.forcing_function = d.forcing_function

\* inverse_params_list[0] of a is c at every quadrature point of every element
ConstantCoefficient(a, c) ==
    \A e \in 1..NElements(a), q \in 1..NQuad(a) :
        a.inverse_params_list[1][e][q] = c

NoConvectionReaction(a) ==
    /\ a.bilinear_params["b_x"] = 0
    /\ a.bilinear_params["b_y"] = 0
    /\ a.bilinear_params["c"] = 0

\* inputs of the second half of C16: no forcing, no convection or reaction,
\* gradients whose unweighted contraction vanishes for every (t, e) while
\* the contraction weighted by the coefficient does not
CoefficientDecides(a) ==
    /\ NoConvectionReaction(a)
    /\ \A t \in 1..NTest(a), e \in 1..NElements(a) :
         /\ a.forcing_function[t][e] = 0
         /\ Contract(a.test_grad_x_mat, a.pred_grad_x_nn, t, e)
              + Contract(a.test_grad_y_mat, a.pred_grad_y_nn, t, e) = 0
    /\ \E t \in 1..NTest(a), e \in 1..NElements(a) :
         ContractWeighted(a.test_grad_x_mat, a.inverse_params_list[1],
                          a.pred_grad_x_nn, t, e)
           + ContractWeighted(a.test_grad_y_mat, a.inverse_params_list[1],
                              a.pred_grad_y_nn, t, e) # 0

\* the values of eps tried against a convection-diffusion result
EpsRange == (0 - 3 * MaxScale)..(3 * MaxScale)

\* the Poisson kernel run on the tensors of a with the constant eps
PoissonWith(a, eps) ==
    pde_loss_poisson_inverse([a EXCEPT !.inverse_params_dict = EpsDict(eps)])

\* C16: when the diffusion coefficient is the same constant at every
\* quadrature point of every element and b_x = b_y = c = 0,
\* pde_loss_cd2d_inverse_domain and pde_loss_poisson_inverse with eps equal
\* to that constant return the same per-element residual for all
\* test-function matrices, predicted gradients and forcing; when the
\* coefficient varies across quadrature points there are inputs on which no
\* single Poisson eps reproduces the convection-diffusion result.
C16_ConstantCoefficientAgrees ==
    \A i \in 1..Len(klog) :
        (klog[i].name = "cd2d" /\ NoConvectionReaction(klog[i].args)) =>
            /\ \A j \in 1..Len(klog) :
                 (/\ klog[j].name = "poisson"
                  /\ SameTensors(klog[j].args, klog[i].args)
                  /\ "eps" \in DOMAIN klog[j].args.inverse_params_dict
                  /\ ConstantCoefficient(klog[i].args,
                         klog[j].args.inverse_params_dict["eps"])) =>
                     /\ klog[i].out.ok /\ klog[j].out.ok
                     /\ klog[j].out.residual_cells = klog[i].out.residual_cells
            /\ CoefficientDecides(klog[i].args) =>
                 /\ klog[i].out.ok
                 /\ \A j \in 1..Len(klog) :
                      (klog[j].name = "poisson" /\ klog[j].out.ok
                         /\ SameTensors(klog[j].args, klog[i].args)) =>
                          klog[j].out.residual_cells
                            # klog[i].out.residual_cells
                 /\ \A eps \in EpsRange :
                      PoissonWith(klog[i].args, eps).residual_cells
                        # klog[i].out.residual_cells

\* both kernels were invoked on the same tensors with the constant
\* coefficient 2, two quadrature points and a nonzero diffusion term
C16_Witness ==
    /\ Len(klog) = 2
    /\ klog[1].name = "poisson" /\ klog[2].name = "cd2d"
    /\ klog[1].out.ok /\ klog[2].out.ok
    /\ SameTensors(klog[1].args, klog[2].args)
    /\ NoConvectionReaction(klog[2].args)
    /\ ConstantCoefficient(klog[2].args, 2)
    /\ klog[1].args.inverse_params_dict["eps"] = 2
    /\ NQuad(klog[2].args) = 2 /\ NTest(klog[2].args) = 2
    /\ Contract(kin.test_grad_x_mat, kin.pred_grad_x_nn, 1, 1)
         + Contract(kin.test_grad_y_mat, kin.pred_grad_y_nn, 1, 1) # 0
    /\ klog[2].out.residual_cells[1][1] > 0

\* both kernels were invoked on inputs with a varying coefficient on which
\* the Poisson result is zero whatever eps is and the convection-diffusion
\* result is not
C16_VaryingReached ==
    /\ Len(klog) = 2
    /\ klog[1].name = "poisson" /\ klog[2].name = "cd2d"
    /\ klog[1].out.ok /\ klog[2].out.ok
    /\ SameTensors(klog[1].args, klog[2].args)
    /\ CoefficientDecides(klog[2].args)
    /\ klog[2].args.inverse_params_list[1][1][1]
         # klog[2].args.inverse_params_list[1][1][2]

====
